---- MODULE Spec2Model ----
(***************************************************************************)
(* Memory hierarchy of the register machine: Memory (memory.py), the      *)
(* FIFO write-back Cache in front of it (cache.py), the CPU's load/store  *)
(* and cache-control instructions (cpu.py) and the run loop (main.py).    *)
(***************************************************************************)
EXTENDS Integers, Sequences, FiniteSets, TLC

(* ---------------------------------------------------------------- bounds *)

\* Memory(size=...): the address-space size of the modelled Memory.
MemSize == 1
\* Cache(cache_size=...): the capacity of the modelled Cache.
CacheSize == 2
\* Number of calls the client makes (the counters of the Cache grow with them).
MaxOps == 5
\* Longest instruction file main() runs.
MaxInstr == 5
\* Number of instructions a client of the CPU has it execute.
MaxCalls == 4
\* Number of calls the client makes on one address across disable/enable cycles.
MaxCycleOps == 6

(* ---------------------------------------------------------- Python's int *)

\* Python integers are unbounded and the range check of Memory.check_value is
\* about values on both sides of the 32-bit limits, which the model checker's
\* own integers cannot hold.  A Python int n is the record [hi, lo] with
\* n = hi * 2^16 + lo and 0 <= lo < 2^16 (one record per integer).
Base == 2 ^ 16
PyInt(n) == [hi |-> n \div Base, lo |-> n % Base]
IntAdd(x, y) == [hi |-> x.hi + y.hi + ((x.lo + y.lo) \div Base),
                 lo |-> (x.lo + y.lo) % Base]
IntNeg(x) == IF x.lo = 0 THEN [hi |-> -x.hi, lo |-> 0]
             ELSE [hi |-> -x.hi - 1, lo |-> Base - x.lo]
IntSub(x, y) == IntAdd(x, IntNeg(y))
\* ~x
IntInvert(x) == IntSub(IntNeg(x), PyInt(1))
IntLt(x, y) == x.hi < y.hi \/ (x.hi = y.hi /\ x.lo < y.lo)
IntLe(x, y) == x = y \/ IntLt(x, y)

(* ------------------------------------------------------ program constants *)

\* 0x7FFFFFFF in Memory.check_value
INT_MAX == 2147483647
\* 0x80000000 in Memory.check_value
X80000000 == IntAdd(PyInt(INT_MAX), PyInt(1))
\* range(32) in CPU.__init__; register Ri is registers[i]
NUM_REGISTERS == 32
\* self.pc += 4
PC_STEP == 4
\* registers['R7'] in CPU.execute_jal
RETURN_REGISTER == 7
\* latency units added by a hit and by a miss in Cache.cache_read
HIT_TIME == 1
MISS_TIME == 10

\* The ranges of the specification, for stating the claims.
InRange32(v) == IntLe(IntNeg(X80000000), v) /\ IntLe(v, PyInt(INT_MAX))
InBounds(a) == IntLe(PyInt(0), a) /\ IntLt(a, PyInt(MemSize))

\* Addresses the clients use: one negative, the first valid one, the first too big.
Addrs == {PyInt(-1), PyInt(0), PyInt(MemSize)}
\* Values the clients write: -2^31 - 1, two values in range, 2^31.
Values == {IntInvert(X80000000), PyInt(10), PyInt(20), X80000000}
\* Control codes passed to cache_control: the three valid ones and an invalid one.
Codes == {0, 1, 2, 3}
\* Contents of the data file Memory is initialized from.
InitialMemories == { [a \in {} |-> PyInt(0)], [a \in {PyInt(0)} |-> PyInt(20)] }

VARIABLES
    memory,             \* Memory.memory: dict address -> value
    cache,              \* Cache.cache: deque of [address, data], oldest first
    maxlen,             \* maxlen of the deque held in Cache.cache: {} is None
    enabled,            \* Cache.enabled
    dirty_entries,      \* Cache.dirty_entries
    hits, misses, total_access_time, total_accesses,
    registers, pc, running,         \* CPU
    instruction_count, ninstr, phase, \* main()
    nops,               \* number of calls made so far
    last,               \* history: the call made by the last step and its outcome
    prev,               \* history: the call made before that one
    lastWrite,          \* history: value of the last successful write issued per address
    lastCached,         \* history: value of the last write accepted by the enabled cache
    readVal,            \* history: value returned by an enabled read, until rewritten/flushed
    wseq,               \* history: enabled writes of distinct addresses since the cache was empty
    stale,              \* history: per resident address written while disabled, the resident and the written value
    held                \* history: value of the last write per address since the cache was last disabled

cacheVars == <<memory, cache, maxlen, enabled, dirty_entries,
               hits, misses, total_access_time, total_accesses>>
cpuVars == <<registers, pc, running, instruction_count, ninstr, phase>>
histVars == <<nops, last, prev, lastWrite, lastCached, readVal, wseq, stale, held>>
vars == <<cacheVars, cpuVars, histVars>>

(* ------------------------------------------------------------ dict, deque *)

dict_get(d, k, default) == IF k \in DOMAIN d THEN d[k] ELSE default
dict_set(d, k, v) == [x \in (DOMAIN d) \cup {k} |-> IF x = k THEN v ELSE d[x]]
dict_del(d, k) == [x \in (DOMAIN d) \ {k} |-> d[x]]
dict_restrict(d, S) == [x \in (DOMAIN d) \cap S |-> d[x]]
EmptyDict == [x \in {} |-> 0]
\* What a call without a result returns.
None == [hi |-> 0, lo |-> 0]

\* deque.append on a deque with the given maxlen
deque_append(d, ml, x) ==
    IF ml = {} THEN Append(d, x)
    ELSE LET n == CHOOSE k \in ml : TRUE IN
         IF n = 0 THEN d
         ELSE IF Len(d) >= n THEN Append(Tail(d), x)
         ELSE Append(d, x)

(* ----------------------------------------------------------------- Memory *)

check_bounds(address) ==
    IF ~IntLt(address, PyInt(MemSize)) THEN "MemoryError" ELSE "none"

check_value(value) ==
    IF IntLt(PyInt(INT_MAX), value) \/ IntLt(value, IntInvert(X80000000))
    THEN "OverflowError" ELSE "none"

read_word(mem, address) ==
    IF check_bounds(address) # "none"
    THEN [exc |-> check_bounds(address), ret |-> None]
    ELSE [exc |-> "none", ret |-> dict_get(mem, address, PyInt(0))]

write_word(mem, address, value) ==
    IF check_bounds(address) # "none"
    THEN [exc |-> check_bounds(address), memory |-> mem]
    ELSE IF check_value(value) # "none"
    THEN [exc |-> check_value(value), memory |-> mem]
    ELSE [exc |-> "none", memory |-> dict_set(mem, address, value)]

(* ------------------------------------------------------------------ Cache *)

\* The Cache object (with the dict of the Memory it is bound to) as a record.
Self == [memory |-> memory, cache |-> cache, maxlen |-> maxlen, enabled |-> enabled,
         dirty_entries |-> dirty_entries, hits |-> hits, misses |-> misses,
         total_access_time |-> total_access_time, total_accesses |-> total_accesses]

Resident(c, address) == \E i \in 1..Len(c) : c[i].address = address
EntryData(c, address) == c[CHOOSE i \in 1..Len(c) : c[i].address = address].data
Addresses(c) == {c[i].address : i \in 1..Len(c)}

\* update_cache that appends without dropping the entry of the same address
update_cache_nofilter(s, address, data) ==
    [s EXCEPT !.maxlen = {},
              !.cache = deque_append(s.cache, {}, [address |-> address, data |-> data])]

\* update_cache that keeps the maxlen of the deque, so that append evicts
update_cache_evicting(s, address, data) ==
    LET kept == SelectSeq(s.cache, LAMBDA entry : entry.address # address) IN
    [s EXCEPT !.cache = deque_append(kept, s.maxlen, [address |-> address, data |-> data])]

update_cache(s, address, data) ==
    LET kept == SelectSeq(s.cache, LAMBDA entry : entry.address # address) IN
    [s EXCEPT !.maxlen = {},
              !.cache = deque_append(kept, {}, [address |-> address, data |-> data])]

RECURSIVE sync_loop(_, _, _)
sync_loop(s, i, mem) ==
    IF i > Len(s.cache) THEN [exc |-> "none", memory |-> mem]
    ELSE IF s.cache[i].address \in s.dirty_entries
    THEN LET w == write_word(mem, s.cache[i].address, s.cache[i].data) IN
         IF w.exc # "none" THEN [exc |-> w.exc, memory |-> mem]
         ELSE sync_loop(s, i + 1, w.memory)
    ELSE sync_loop(s, i + 1, mem)

\* sync_with_memory that clears the dirty set without writing anything back
sync_with_memory_nowrite(s) ==
    [exc |-> "none", ret |-> None, self |-> [s EXCEPT !.dirty_entries = {}]]

\* sync_with_memory that clears the dirty set also when a write failed
sync_with_memory_clearing_on_failure(s) ==
    LET r == sync_loop(s, 1, s.memory) IN
    [exc |-> r.exc, ret |-> None,
     self |-> [s EXCEPT !.memory = r.memory, !.dirty_entries = {}]]

sync_with_memory(s) ==
    LET r == sync_loop(s, 1, s.memory) IN
    [exc |-> r.exc, ret |-> None,
     self |-> [s EXCEPT !.memory = r.memory,
                        !.dirty_entries = IF r.exc = "none" THEN {} ELSE @]]

\* cache_read that counts a read of a resident address as a miss
cache_read_hit_as_miss(s, address) ==
    IF ~s.enabled
    THEN LET r == read_word(s.memory, address) IN
         [exc |-> r.exc, ret |-> r.ret, self |-> s]
    ELSE LET s1 == [s EXCEPT !.total_accesses = @ + 1,
                             !.misses = @ + 1,
                             !.total_access_time = @ + MISS_TIME] IN
         IF Resident(s1.cache, address)
         THEN [exc |-> "none", ret |-> EntryData(s1.cache, address), self |-> s1]
         ELSE LET r == read_word(s1.memory, address) IN
              IF r.exc # "none"
              THEN [exc |-> r.exc, ret |-> None, self |-> s1]
              ELSE [exc |-> "none", ret |-> r.ret,
                    self |-> update_cache(s1, address, r.ret)]

\* cache_read that moves the entry it hits to the newest position
cache_read_promote(s, address) ==
    IF ~s.enabled
    THEN LET r == read_word(s.memory, address) IN
         [exc |-> r.exc, ret |-> r.ret, self |-> s]
    ELSE LET s1 == [s EXCEPT !.total_accesses = @ + 1] IN
         IF Resident(s1.cache, address)
         THEN [exc |-> "none", ret |-> EntryData(s1.cache, address),
               self |-> [update_cache(s1, address, EntryData(s1.cache, address))
                             EXCEPT !.hits = @ + 1,
                                    !.total_access_time = @ + HIT_TIME]]
         ELSE LET s2 == [s1 EXCEPT !.misses = @ + 1,
                                   !.total_access_time = @ + MISS_TIME]
                  r == read_word(s2.memory, address) IN
              IF r.exc # "none"
              THEN [exc |-> r.exc, ret |-> None, self |-> s2]
              ELSE [exc |-> "none", ret |-> r.ret,
                    self |-> update_cache(s2, address, r.ret)]

cache_read(s, address) ==
    IF ~s.enabled
    THEN LET r == read_word(s.memory, address) IN
         [exc |-> r.exc, ret |-> r.ret, self |-> s]
    ELSE LET s1 == [s EXCEPT !.total_accesses = @ + 1] IN
         IF Resident(s1.cache, address)
         THEN [exc |-> "none", ret |-> EntryData(s1.cache, address),
               self |-> [s1 EXCEPT !.hits = @ + 1,
                                   !.total_access_time = @ + HIT_TIME]]
         ELSE LET s2 == [s1 EXCEPT !.misses = @ + 1,
                                   !.total_access_time = @ + MISS_TIME]
                  r == read_word(s2.memory, address) IN
              IF r.exc # "none"
              THEN [exc |-> r.exc, ret |-> None, self |-> s2]
              ELSE [exc |-> "none", ret |-> r.ret,
                    self |-> update_cache(s2, address, r.ret)]

\* cache_write that installs the entry even while the cache is disabled
cache_write_always_installs(s, address, data) ==
    IF ~s.enabled
    THEN LET w == write_word(s.memory, address, data) IN
         [exc |-> w.exc, ret |-> None,
          self |-> [update_cache(s, address, data) EXCEPT !.memory = w.memory]]
    ELSE [exc |-> "none", ret |-> None,
          self |-> [update_cache(s, address, data)
                        EXCEPT !.dirty_entries = @ \cup {address}]]

\* cache_write that, enabled, also writes the value through to Memory
cache_write_through(s, address, data) ==
    LET w == write_word(s.memory, address, data) IN
    IF ~s.enabled
    THEN [exc |-> w.exc, ret |-> None, self |-> [s EXCEPT !.memory = w.memory]]
    ELSE [exc |-> "none", ret |-> None,
          self |-> [update_cache(s, address, data)
                        EXCEPT !.dirty_entries = @ \cup {address},
                               !.memory = w.memory]]

cache_write(s, address, data) ==
    IF ~s.enabled
    THEN LET w == write_word(s.memory, address, data) IN
         [exc |-> w.exc, ret |-> None, self |-> [s EXCEPT !.memory = w.memory]]
    ELSE [exc |-> "none", ret |-> None,
          self |-> [update_cache(s, address, data)
                        EXCEPT !.dirty_entries = @ \cup {address}]]

\* flush that empties the cache without synchronizing first
flush_nosync(s) ==
    [exc |-> "none", ret |-> None,
     self |-> [s EXCEPT !.cache = <<>>, !.dirty_entries = {}]]

\* flush that also resets the statistics
flush_resetting_counters(s) ==
    LET r == sync_with_memory(s) IN
    IF r.exc # "none" THEN r
    ELSE [exc |-> "none", ret |-> None,
          self |-> [r.self EXCEPT !.cache = <<>>, !.hits = 0, !.misses = 0,
                                  !.total_access_time = 0, !.total_accesses = 0]]

\* flush that empties the cache although the synchronization failed
flush_clearing_on_failure(s) ==
    LET r == sync_with_memory(s) IN
    [exc |-> r.exc, ret |-> None, self |-> [r.self EXCEPT !.cache = <<>>]]

flush(s) ==
    LET r == sync_with_memory(s) IN
    IF r.exc # "none" THEN r
    ELSE [exc |-> "none", ret |-> None, self |-> [r.self EXCEPT !.cache = <<>>]]

\* cache_control that flushes on disable and takes an unknown code for a flush
cache_control_flushing(s, code) ==
    IF code = 0 THEN [flush(s) EXCEPT !.self.enabled = FALSE]
    ELSE IF code = 1 THEN [exc |-> "none", ret |-> None, self |-> [s EXCEPT !.enabled = TRUE]]
    ELSE flush(s)

\* cache_control that drops the resident entries when it enables the cache
cache_control_invalidating(s, code) ==
    IF code = 0 THEN [exc |-> "none", ret |-> None, self |-> [s EXCEPT !.enabled = FALSE]]
    ELSE IF code = 1
    THEN [exc |-> "none", ret |-> None,
          self |-> [s EXCEPT !.enabled = TRUE, !.cache = <<>>, !.dirty_entries = {}]]
    ELSE IF code = 2 THEN flush(s)
    ELSE [exc |-> "ValueError", ret |-> None, self |-> s]

cache_control(s, code) ==
    IF code = 0 THEN [exc |-> "none", ret |-> None, self |-> [s EXCEPT !.enabled = FALSE]]
    ELSE IF code = 1 THEN [exc |-> "none", ret |-> None, self |-> [s EXCEPT !.enabled = TRUE]]
    ELSE IF code = 2 THEN flush(s)
    ELSE [exc |-> "ValueError", ret |-> None, self |-> s]

\* Assign the object's fields from the record an operation returns.
Becomes(s) ==
    /\ memory' = s.memory
    /\ cache' = s.cache
    /\ maxlen' = s.maxlen
    /\ enabled' = s.enabled
    /\ dirty_entries' = s.dirty_entries
    /\ hits' = s.hits
    /\ misses' = s.misses
    /\ total_access_time' = s.total_access_time
    /\ total_accesses' = s.total_accesses

(* -------------------------------------------------------------------- CPU *)

\* The CPU object, with the Cache it holds, as a record.
Cpu == [registers |-> registers, pc |-> pc, running |-> running, cache |-> Self]

\* What a handler returns: the exception it raised ("none": it returned), the
\* CPU it leaves, and the address, data and value of its memory access, if any.
Done(c) == [exc |-> "none", cpu |-> c, address |-> None, data |-> None, ret |-> None]

\* self.registers[rd] = result without the guard
SetRegister_unguarded(regs, rd, result) == [regs EXCEPT ![rd] = result]

\* self.registers[rd] = result, guarded by rd != 'R0'
SetRegister(regs, rd, result) == IF rd # 0 THEN [regs EXCEPT ![rd] = result] ELSE regs

reset(c) ==
    [c EXCEPT !.pc = 0,
              !.registers = [reg \in DOMAIN @ |-> PyInt(0)],
              !.running = TRUE]

execute_add(c, rd, rs, rt) ==
    Done([c EXCEPT !.registers = SetRegister(@, rd, IntAdd(c.registers[rs], c.registers[rt])),
                   !.pc = @ + PC_STEP])

execute_addi(c, rt, rs, immd) ==
    Done([c EXCEPT !.registers = SetRegister(@, rt, IntAdd(c.registers[rs], PyInt(immd))),
                   !.pc = @ + PC_STEP])

execute_sub(c, rd, rs, rt) ==
    Done([c EXCEPT !.registers = SetRegister(@, rd, IntSub(c.registers[rs], c.registers[rt])),
                   !.pc = @ + PC_STEP])

execute_slt(c, rd, rs, rt) ==
    Done([c EXCEPT !.registers = SetRegister(@, rd,
                        IF IntLt(c.registers[rs], c.registers[rt]) THEN PyInt(1) ELSE PyInt(0)),
                   !.pc = @ + PC_STEP])

execute_bne(c, rs, rt, offset) ==
    Done([c EXCEPT !.pc = IF c.registers[rs] # c.registers[rt]
                          THEN @ + PC_STEP + offset * PC_STEP
                          ELSE @ + PC_STEP])

execute_jump(c, target) ==
    Done([c EXCEPT !.pc = target * PC_STEP])

execute_jal(c, target) ==
    Done([c EXCEPT !.registers = [@ EXCEPT ![RETURN_REGISTER] = PyInt(c.pc + PC_STEP)],
                   !.pc = target * PC_STEP])

\* execute_lw that reads Memory directly instead of going through the cache
execute_lw_bypass(c, rt, offset, rs) ==
    LET address == IntAdd(c.registers[rs], PyInt(offset))
        r == read_word(c.cache.memory, address) IN
    IF r.exc # "none"
    THEN [exc |-> r.exc, cpu |-> c, address |-> address, data |-> None, ret |-> None]
    ELSE [exc |-> "none",
          cpu |-> [c EXCEPT !.registers = SetRegister(@, rt, r.ret), !.pc = @ + PC_STEP],
          address |-> address, data |-> None, ret |-> r.ret]

execute_lw(c, rt, offset, rs) ==
    LET address == IntAdd(c.registers[rs], PyInt(offset))
        r == cache_read(c.cache, address) IN
    IF r.exc # "none"
    THEN [exc |-> r.exc, cpu |-> [c EXCEPT !.cache = r.self],
          address |-> address, data |-> None, ret |-> None]
    ELSE [exc |-> "none",
          cpu |-> [c EXCEPT !.cache = r.self,
                            !.registers = SetRegister(@, rt, r.ret),
                            !.pc = @ + PC_STEP],
          address |-> address, data |-> None, ret |-> r.ret]

execute_sw(c, rt, offset, rs) ==
    LET address == IntAdd(c.registers[rs], PyInt(offset))
        rt_value == c.registers[rt]
        r == cache_write(c.cache, address, rt_value) IN
    IF r.exc # "none"
    THEN [exc |-> r.exc, cpu |-> [c EXCEPT !.cache = r.self],
          address |-> address, data |-> rt_value, ret |-> None]
    ELSE [exc |-> "none",
          cpu |-> [c EXCEPT !.cache = r.self, !.pc = @ + PC_STEP],
          address |-> address, data |-> rt_value, ret |-> None]

\* execute_cache that swallows the failure of cache_control
execute_cache_swallow(c, code) ==
    LET r == cache_control(c.cache, code) IN
    Done([c EXCEPT !.cache = r.self, !.pc = @ + PC_STEP])

execute_cache(c, code) ==
    LET r == cache_control(c.cache, code) IN
    IF r.exc # "none"
    THEN [Done([c EXCEPT !.cache = r.self]) EXCEPT !.exc = r.exc]
    ELSE Done([c EXCEPT !.cache = r.self, !.pc = @ + PC_STEP])

\* An instruction line, decoded: the opcode, up to three register operands and
\* the literal (immediate, offset, target or control code) it carries.
Instr(op, r1, r2, r3, imm) == [op |-> op, r1 |-> r1, r2 |-> r2, r3 |-> r3, imm |-> imm]

execute_instruction(c, instr) ==
    CASE instr.op = "ADD" -> execute_add(c, instr.r1, instr.r2, instr.r3)
      [] instr.op = "ADDI" -> execute_addi(c, instr.r1, instr.r2, instr.imm)
      [] instr.op = "SUB" -> execute_sub(c, instr.r1, instr.r2, instr.r3)
      [] instr.op = "SLT" -> execute_slt(c, instr.r1, instr.r2, instr.r3)
      [] instr.op = "BNE" -> execute_bne(c, instr.r1, instr.r2, instr.imm)
      [] instr.op = "J" -> execute_jump(c, instr.imm)
      [] instr.op = "JAL" -> execute_jal(c, instr.imm)
      [] instr.op = "LW" -> execute_lw(c, instr.r1, instr.imm, instr.r2)
      [] instr.op = "SW" -> execute_sw(c, instr.r1, instr.imm, instr.r2)
      [] instr.op = "CACHE" -> execute_cache(c, instr.imm)
      [] instr.op = "HALT" -> Done([c EXCEPT !.running = FALSE])
      [] OTHER -> [Done(c) EXCEPT !.exc = "ValueError"]

(* ---------------------------------------------------------------- history *)

\* A call of `op` made in the current state, that returned r: its arguments
\* (reg, address, data, code as far as the call has them), its outcome, and
\* whether it was counted as a hit or as a miss.
Call(op, reg, address, data, code, r) ==
    [op |-> op, reg |-> reg, address |-> address, data |-> data, code |-> code,
     exc |-> r.exc, ret |-> r.ret,
     hit |-> r.self.hits > hits, miss |-> r.self.misses > misses]

\* The same for an instruction, whose outcome r holds the CPU it leaves.
InstrCall(instr, r) ==
    [op |-> instr.op, reg |-> instr.r1, address |-> r.address, data |-> r.data,
     code |-> instr.imm, exc |-> r.exc, ret |-> r.ret,
     hit |-> r.cpu.cache.hits > hits, miss |-> r.cpu.cache.misses > misses]

NoCall == [op |-> "init", reg |-> 0, address |-> None, data |-> None, code |-> 0,
           exc |-> "none", ret |-> None, hit |-> FALSE, miss |-> FALSE]

Record(call) ==
    /\ nops' = nops + 1
    /\ last' = call
    /\ prev' = last

\* History after a read of `address` through the cache that returned r.
HistRead(address, r) ==
    /\ lastWrite' = lastWrite
    /\ lastCached' = lastCached
    /\ readVal' = dict_restrict(IF enabled /\ r.exc = "none"
                                THEN dict_set(readVal, address, r.ret)
                                ELSE readVal,
                                Addresses(r.self.cache))
    /\ wseq' = <<>>
    /\ stale' = stale
    /\ held' = held

\* History after a write of (address, data) through the cache that returned r.
HistWrite(address, data, r) ==
    /\ lastWrite' = IF r.exc = "none" THEN dict_set(lastWrite, address, data)
                    ELSE lastWrite
    /\ lastCached' = IF enabled THEN dict_set(lastCached, address, data)
                     ELSE lastCached
    /\ readVal' = dict_restrict(IF enabled THEN dict_del(readVal, address) ELSE readVal,
                                Addresses(r.self.cache))
    /\ wseq' = IF ~enabled THEN <<>>
               ELSE IF cache = <<>> THEN <<[address |-> address, data |-> data]>>
               ELSE IF wseq # <<>> /\ ~Resident(wseq, address) /\ Len(wseq) <= CacheSize
               THEN Append(wseq, [address |-> address, data |-> data])
               ELSE <<>>
    /\ stale' = IF enabled THEN dict_del(stale, address)
                ELSE IF r.exc # "none" \/ ~Resident(cache, address) THEN stale
                ELSE IF EntryData(cache, address) = data THEN dict_del(stale, address)
                ELSE dict_set(stale, address,
                              [old |-> EntryData(cache, address), new |-> data])
    /\ held' = IF enabled THEN dict_set(held, address, data) ELSE held

\* History after cache_control(code) (sync_with_memory: as code 1) that returned r.
HistControl(code, r) ==
    /\ lastWrite' = lastWrite
    /\ lastCached' = lastCached
    /\ readVal' = IF code = 2 THEN EmptyDict ELSE readVal
    /\ wseq' = <<>>
    /\ stale' = IF code = 2 THEN EmptyDict ELSE stale
    /\ held' = IF code = 0 THEN EmptyDict ELSE held

(* ------------------------------------------------------- the Cache's API *)

Init ==
    /\ memory \in InitialMemories
    /\ cache = <<>>
    /\ maxlen = {CacheSize}
    /\ enabled = FALSE
    /\ dirty_entries = {}
    /\ hits = 0 /\ misses = 0 /\ total_access_time = 0 /\ total_accesses = 0
    /\ registers = [i \in 0..(NUM_REGISTERS - 1) |-> PyInt(0)]
    /\ pc = 0
    /\ running = TRUE
    /\ instruction_count = 0
    /\ ninstr = 0
    /\ phase = "idle"
    /\ nops = 0
    /\ last = NoCall
    /\ prev = NoCall
    /\ lastWrite = EmptyDict
    /\ lastCached = EmptyDict
    /\ readVal = EmptyDict
    /\ wseq = <<>>
    /\ stale = EmptyDict
    /\ held = EmptyDict

CacheRead(a) ==
    /\ nops < MaxOps
    /\ \E r \in {cache_read(Self, a)} :
       /\ Becomes(r.self)
       /\ Record(Call("cache_read", 0, a, None, 0, r))
       /\ HistRead(a, r)
    /\ UNCHANGED cpuVars

CacheWrite(a, v) ==
    /\ nops < MaxOps
    /\ \E r \in {cache_write(Self, a, v)} :
       /\ Becomes(r.self)
       /\ Record(Call("cache_write", 0, a, v, 0, r))
       /\ HistWrite(a, v, r)
    /\ UNCHANGED cpuVars

CacheControl(code) ==
    /\ nops < MaxOps
    /\ \E r \in {cache_control(Self, code)} :
       /\ Becomes(r.self)
       /\ Record(Call("cache_control", 0, None, None, code, r))
       /\ HistControl(code, r)
    /\ UNCHANGED cpuVars

SyncWithMemory ==
    /\ nops < MaxOps
    /\ \E r \in {sync_with_memory(Self)} :
       /\ Becomes(r.self)
       /\ Record(Call("sync_with_memory", 0, None, None, 0, r))
       /\ HistControl(1, r)
    /\ UNCHANGED cpuVars

Flush ==
    /\ nops < MaxOps
    /\ \E r \in {flush(Self)} :
       /\ Becomes(r.self)
       /\ Record(Call("flush", 0, None, None, 0, r))
       /\ HistControl(2, r)
    /\ UNCHANGED cpuVars

Next ==
    \/ \E a \in Addrs : CacheRead(a)
    \/ \E a \in Addrs, v \in Values : CacheWrite(a, v)
    \/ \E code \in Codes : CacheControl(code)
    \/ SyncWithMemory
    \/ Flush

Spec == Init /\ [][Next]_vars

(* --------------------------- the Cache's API, longer runs on one address *)

CycleAddr == PyInt(0)
CycleValues == {PyInt(10), PyInt(20)}

CycleRead ==
    /\ nops < MaxCycleOps
    /\ \E r \in {cache_read(Self, CycleAddr)} :
       /\ Becomes(r.self)
       /\ Record(Call("cache_read", 0, CycleAddr, None, 0, r))
       /\ HistRead(CycleAddr, r)
    /\ UNCHANGED cpuVars

CycleWrite ==
    /\ nops < MaxCycleOps
    /\ \E v \in CycleValues : \E r \in {cache_write(Self, CycleAddr, v)} :
       /\ Becomes(r.self)
       /\ Record(Call("cache_write", 0, CycleAddr, v, 0, r))
       /\ HistWrite(CycleAddr, v, r)
    /\ UNCHANGED cpuVars

CycleControl ==
    /\ nops < MaxCycleOps
    /\ \E code \in {0, 1, 2} : \E r \in {cache_control(Self, code)} :
       /\ Becomes(r.self)
       /\ Record(Call("cache_control", 0, None, None, code, r))
       /\ HistControl(code, r)
    /\ UNCHANGED cpuVars

CycleSync ==
    /\ nops < MaxCycleOps
    /\ \E r \in {sync_with_memory(Self)} :
       /\ Becomes(r.self)
       /\ Record(Call("sync_with_memory", 0, None, None, 0, r))
       /\ HistControl(1, r)
    /\ UNCHANGED cpuVars

NextCycle ==
    \/ CycleRead
    \/ CycleWrite
    \/ CycleControl
    \/ CycleSync

SpecCycle == Init /\ [][NextCycle]_vars

(* ------------------------------------------------------------------ main *)

\* main() has built Memory, Cache and CPU and has read a file of ninstr lines.
InitMain ==
    /\ memory \in InitialMemories
    /\ cache = <<>>
    /\ maxlen = {CacheSize}
    /\ enabled = FALSE
    /\ dirty_entries = {}
    /\ hits = 0 /\ misses = 0 /\ total_access_time = 0 /\ total_accesses = 0
    /\ registers = [i \in 0..(NUM_REGISTERS - 1) |-> PyInt(0)]
    /\ pc = 0
    /\ running = TRUE
    /\ instruction_count = 0
    /\ ninstr \in 1..MaxInstr
    /\ phase = "loop"
    /\ nops = 0
    /\ last = NoCall
    /\ prev = NoCall
    /\ lastWrite = EmptyDict
    /\ lastCached = EmptyDict
    /\ readVal = EmptyDict
    /\ wseq = <<>>
    /\ stale = EmptyDict
    /\ held = EmptyDict

\* A loop condition that does not look at cpu.running
LoopCondition_ignoring_running == phase = "loop" /\ instruction_count < ninstr

\* The condition of the while loop of main().
LoopCondition == phase = "loop" /\ running /\ instruction_count < ninstr

\* The body of the while loop of main(): instructions[instruction_count] is instr.
Execute(instr) ==
    /\ \E r \in {execute_instruction(Cpu, instr)} :
       /\ Becomes(r.cpu.cache)
       /\ registers' = r.cpu.registers
       /\ pc' = r.cpu.pc
       /\ running' = r.cpu.running
       /\ IF r.exc = "none"
          THEN instruction_count' = instruction_count + 1 /\ phase' = "loop"
          ELSE instruction_count' = instruction_count /\ phase' = "failed"
       /\ Record(InstrCall(instr, r))
    /\ UNCHANGED <<ninstr, lastWrite, lastCached, readVal, wseq, stale, held>>

\* The loop ends: the run completes and reports the cache status.
Finish ==
    /\ phase = "loop"
    /\ ~(running /\ instruction_count < ninstr)
    /\ phase' = "completed"
    /\ UNCHANGED <<cacheVars, registers, pc, running, instruction_count, ninstr, histVars>>

\* The instruction lines of the programs run: register operands and literals.
ExecADDI == LoopCondition /\ Execute(Instr("ADDI", 3, 0, 0, 10))
ExecLW == LoopCondition /\ \E rt \in {0, 4} : Execute(Instr("LW", rt, 0, 0, 0))
ExecSW == LoopCondition /\ \E offset \in {0, -1} : Execute(Instr("SW", 3, 0, 0, offset))
ExecCACHE == LoopCondition /\ \E code \in Codes : Execute(Instr("CACHE", 0, 0, 0, code))
ExecHALT == LoopCondition /\ Execute(Instr("HALT", 0, 0, 0, 0))
ExecUnknown == LoopCondition /\ Execute(Instr("FOO", 0, 0, 0, 0))

NextMain ==
    \/ ExecADDI
    \/ ExecLW
    \/ ExecSW
    \/ ExecCACHE
    \/ ExecHALT
    \/ ExecUnknown
    \/ Finish

SpecMain == InitMain /\ [][NextMain]_vars

(* ------------------------------------------- main, on branches and jumps *)

\* Instruction lines that set the program counter.
ExecBNE == LoopCondition /\ \E offset \in {-2, 3} : Execute(Instr("BNE", 0, 3, 0, offset))
ExecJ == LoopCondition /\ \E target \in {0, 7} : Execute(Instr("J", 0, 0, 0, target))
ExecJAL == LoopCondition /\ Execute(Instr("JAL", 0, 0, 0, 1))

NextJump ==
    \/ ExecADDI
    \/ ExecBNE
    \/ ExecJ
    \/ ExecJAL
    \/ ExecHALT
    \/ ExecUnknown
    \/ Finish

\* main() is a sequential program: it keeps taking its next step.
SpecJump == InitMain /\ [][NextJump]_vars /\ WF_vars(NextJump)

(* --------------------------------------------------------- the CPU's API *)

\* The client, which holds the CPU outside main(), makes one more call.
ClientCalls == phase = "idle" /\ nops < MaxCalls

\* A client has the CPU execute one instruction; a failure is the client's to
\* handle and leaves the CPU as the handler left it.
CpuCall(instr) ==
    /\ \E r \in {execute_instruction(Cpu, instr)} :
       /\ Becomes(r.cpu.cache)
       /\ registers' = r.cpu.registers
       /\ pc' = r.cpu.pc
       /\ running' = r.cpu.running
       /\ Record(InstrCall(instr, r))
    /\ UNCHANGED <<instruction_count, ninstr, phase, lastWrite, lastCached, readVal, wseq, stale, held>>

CpuReset ==
    /\ ClientCalls
    /\ \E c \in {reset(Cpu)} :
       /\ registers' = c.registers
       /\ pc' = c.pc
       /\ running' = c.running
    /\ Record([NoCall EXCEPT !.op = "reset"])
    /\ UNCHANGED <<cacheVars, instruction_count, ninstr, phase,
                   lastWrite, lastCached, readVal, wseq, stale, held>>

\* The instructions the client issues: destinations R0 and R1, sources R0 and R1.
CpuADDI == ClientCalls /\ \E rt \in {0, 1} : CpuCall(Instr("ADDI", rt, rt, 0, 10))
CpuADD == ClientCalls /\ \E rd \in {0, 1} : CpuCall(Instr("ADD", rd, 1, 1, 0))
CpuSUB == ClientCalls /\ \E rd \in {0, 1} : CpuCall(Instr("SUB", rd, 0, 1, 0))
CpuSLT == ClientCalls /\ \E rd \in {0, 1} : CpuCall(Instr("SLT", rd, 0, 1, 0))
CpuLW == ClientCalls /\ \E rt \in {0, 1}, offset \in {0, MemSize} : CpuCall(Instr("LW", rt, 0, 0, offset))
CpuSW == ClientCalls /\ CpuCall(Instr("SW", 1, 0, 0, 0))
CpuJAL == ClientCalls /\ CpuCall(Instr("JAL", 0, 0, 0, 2))
CpuBNE == ClientCalls /\ CpuCall(Instr("BNE", 0, 1, 0, 3))
CpuHALT == ClientCalls /\ CpuCall(Instr("HALT", 0, 0, 0, 0))
CpuCACHE == ClientCalls /\ CpuCall(Instr("CACHE", 0, 0, 0, 1))

NextCpu ==
    \/ CpuADDI
    \/ CpuADD
    \/ CpuSUB
    \/ CpuSLT
    \/ CpuLW
    \/ CpuSW
    \/ CpuJAL
    \/ CpuBNE
    \/ CpuHALT
    \/ CpuCACHE
    \/ CpuReset

SpecCpu == Init /\ [][NextCpu]_vars

(* ====================================================== claims on the API *)

\* The step just taken is a call of `op`.
Step(op) == nops' = nops + 1 /\ last'.op = op
FlushStep == nops' = nops + 1 /\
             (last'.op = "flush" \/ (last'.op = "cache_control" /\ last'.code = 2))
Stored(mem, a) == dict_get(mem, a, PyInt(0))
Counters == <<hits, misses, total_access_time, total_accesses>>

\* C1: with the cache enabled and capacity k, writing k+1 distinct addresses in
\* sequence into an empty cache leaves exactly the last k of them resident, in
\* insertion order (the first-inserted one is evicted).
C1_FifoEviction ==
    Len(wseq) = CacheSize + 1 => cache = SubSeq(wseq, 2, CacheSize + 1)

\* C2: the number of resident entries never exceeds the capacity fixed at
\* construction.
C2_AtMostCapacity == Len(cache) <= CacheSize

C4_Original ==
    [][(FlushStep /\ last'.exc = "none")
       => /\ cache' = <<>>
          /\ \A a \in dirty_entries :
                (InBounds(a) /\ InRange32(lastWrite[a]) /\ InRange32(lastCached[a]))
                => Stored(memory', a) = lastWrite[a]]_vars

\* C4 (amended): a flush that completes empties the resident entries and the
\* dirty set and leaves, for every address dirty before it, Memory holding the
\* value of the last write issued to that address while the cache was enabled.
C4_Flush ==
    [][(FlushStep /\ last'.exc = "none")
       => /\ cache' = <<>>
          /\ dirty_entries' = {}
          /\ \A a \in dirty_entries :
                a \in DOMAIN lastCached /\ Stored(memory', a) = lastCached[a]]_vars

\* A flush right after a write issued while disabled to an address that was
\* dirty: Memory holds the value written while enabled.
C4_Witness ==
    /\ last.op = "cache_control" /\ last.code = 2 /\ last.exc = "none"
    /\ prev.op = "cache_write" /\ prev.exc = "none" /\ ~enabled
    /\ cache = <<>> /\ dirty_entries = {}
    /\ prev.address \in DOMAIN lastCached
    /\ lastCached[prev.address] # prev.data
    /\ Stored(memory, prev.address) = lastCached[prev.address]

\* C5: while the cache is disabled, cache_read(a) returns (or fails as)
\* Memory.read(a) and cache_write(a, v) has the effect and the failure of
\* Memory.write(a, v); neither changes the counters, the entries or the dirty set.
C5_DisabledTransparent ==
    [][/\ (Step("cache_read") /\ ~enabled)
          => /\ [exc |-> last'.exc, ret |-> last'.ret] = read_word(memory, last'.address)
             /\ UNCHANGED <<memory, cache, dirty_entries, Counters>>
       /\ (Step("cache_write") /\ ~enabled)
          => /\ [exc |-> last'.exc, memory |-> memory']
                   = write_word(memory, last'.address, last'.data)
             /\ UNCHANGED <<cache, dirty_entries, Counters>>]_vars

C5_Witness ==
    /\ ~enabled
    /\ last.op = "cache_write" /\ last.exc = "none"
    /\ prev.op = "cache_read" /\ prev.exc = "none"
    /\ cache # <<>> /\ dirty_entries # {}
    /\ Stored(memory, last.address) = last.data

\* C6: every address present in the Memory store satisfies 0 <= address < capacity.
C6_StoreInBounds == \A a \in DOMAIN memory : InBounds(a)

\* C7: every value stored in Memory is in the signed 32-bit range.
C7_StoreInRange == \A a \in DOMAIN memory : InRange32(memory[a])

\* C8: with the cache enabled, a cache_read of a non-resident address is counted
\* as a miss, and a cache_read of an address that an earlier read returned a value
\* for, and that was not rewritten, evicted or flushed since, is counted as a hit
\* and returns that same value.
C8_MissThenHit ==
    [][(Step("cache_read") /\ enabled)
       => /\ ~Resident(cache, last'.address)
             => misses' = misses + 1 /\ hits' = hits
          /\ last'.address \in DOMAIN readVal
             => /\ hits' = hits + 1 /\ misses' = misses
                /\ last'.exc = "none"
                /\ last'.ret = readVal[last'.address]]_vars

C8_Witness ==
    /\ enabled
    /\ last.op = "cache_read" /\ last.hit /\ ~last.miss
    /\ prev.op = "cache_read" /\ prev.miss /\ ~prev.hit /\ prev.exc = "none"
    /\ prev.address = last.address /\ prev.ret = last.ret
    /\ hits = 1 /\ misses = 2

(* ================================================== claims on the program *)

\* The step just taken is cache_control(code), called by a client or by CACHE,code.
ControlStep == nops' = nops + 1 /\ last'.op \in {"cache_control", "CACHE"}

\* C9 (as claimed): with the cache enabled, a SW and then a LW of the same
\* address: the first access is counted as a miss and the loaded register ends
\* equal to the stored value; a second identical LW is counted as a hit.
C9_Original ==
    /\ (prev.op = "SW" /\ last.op = "LW" /\ last.address = prev.address /\ enabled)
       => /\ prev.miss \/ last.miss
          /\ last.reg # 0 => registers[last.reg] = prev.data
    /\ (prev.op = "LW" /\ last.op = "LW" /\ last.address = prev.address /\ enabled)
       => last.hit

\* C9 (amended): with the cache enabled, a SW and then a LW of the same address:
\* the SW is counted neither as a hit nor as a miss, the LW is counted as a hit
\* (on the entry the SW installed) and the loaded register ends equal to the
\* stored value; a second identical LW is counted as a hit and loads the same.
C9_StoreThenLoad ==
    /\ (last.op = "SW" /\ enabled)
       => last.exc = "none" /\ ~last.hit /\ ~last.miss
    /\ (prev.op = "SW" /\ last.op = "LW" /\ last.address = prev.address /\ enabled)
       => /\ last.exc = "none" /\ last.hit /\ ~last.miss
          /\ last.ret = prev.data
          /\ last.reg # 0 => registers[last.reg] = prev.data
    /\ (prev.op = "LW" /\ last.op = "LW" /\ last.address = prev.address /\ enabled)
       => last.exc = "none" /\ last.hit /\ ~last.miss /\ last.ret = prev.ret

\* CACHE,1; ADDI,R3,R0,10; SW,R3,0(R0); LW,R4,0(R0) has run.
C9_Witness ==
    /\ enabled /\ nops = 4
    /\ prev.op = "SW" /\ prev.reg = 3 /\ prev.address = PyInt(0)
    /\ last.op = "LW" /\ last.reg = 4 /\ last.address = PyInt(0)
    /\ registers[3] = PyInt(10) /\ registers[4] = PyInt(10)
    /\ hits = 1 /\ misses = 0

\* C10: cache_control with a code other than 0, 1 or 2 fails and leaves enabled,
\* entries, dirty set, statistics and Memory unchanged; code 0 sets enabled to
\* false and code 1 to true, changing nothing else; the CACHE instruction
\* propagates the failure and the run halts (no instruction runs after it).
C10_CacheControl ==
    [][/\ (ControlStep /\ last'.code \notin {0, 1, 2})
          => /\ last'.exc = "ValueError"
             /\ UNCHANGED <<cacheVars, registers, pc, instruction_count>>
             /\ last'.op = "CACHE" => phase' = "failed"
       /\ (ControlStep /\ last'.code \in {0, 1})
          => /\ last'.exc = "none"
             /\ enabled' = (last'.code = 1)
             /\ UNCHANGED <<memory, cache, dirty_entries, Counters>>
             /\ last'.op = "CACHE" => phase' = "loop"
       /\ phase = "failed" => UNCHANGED vars]_vars

\* CACHE,3 has failed in a run that had dirty entries and counted accesses.
C10_Witness ==
    /\ last.op = "CACHE" /\ last.code = 3 /\ last.exc = "ValueError"
    /\ phase = "failed" /\ instruction_count < ninstr
    /\ enabled /\ dirty_entries # {} /\ cache # <<>> /\ hits > 0

(* ================================================ invariants and frames *)

\* C11: the resident entries hold at most one entry per address, whatever
\* read-miss installs, writes (repeated writes to one address included) and
\* disable/enable cycles have occurred.
C11_UniqueAddresses == Cardinality(Addresses(cache)) = Len(cache)

\* An address installed by a read miss has been rewritten, next to another
\* resident address: it has one entry, the last one.
C11_Witness ==
    /\ enabled /\ Len(cache) = 2
    /\ prev.op = "cache_read" /\ prev.miss /\ prev.exc = "none"
    /\ last.op = "cache_write" /\ last.address = prev.address
    /\ last.data # prev.ret
    /\ cache[2] = [address |-> last.address, data |-> last.data]

\* C12: register R0 holds 0 in every reachable state, after any instruction and
\* after reset, and an ADD, ADDI, SUB, SLT or LW whose destination is R0 changes
\* no register.
C12_ZeroRegister ==
    /\ [](registers[0] = PyInt(0))
    /\ [][(/\ nops' = nops + 1
           /\ last'.op \in {"ADD", "ADDI", "SUB", "SLT", "LW"}
           /\ last'.reg = 0)
          => registers' = registers]_vars

\* After a JAL, ADD,R0,R1,R1 has completed with R1 holding 20.
C12_Witness ==
    /\ last.op = "ADD" /\ last.reg = 0 /\ last.exc = "none"
    /\ registers[1] = PyInt(20)
    /\ registers[RETURN_REGISTER] # PyInt(0)
    /\ registers[0] = PyInt(0)

\* C13: with the cache enabled, cache_write never changes Memory; Memory changes
\* only in sync_with_memory, in a flush (cache_control(2)), or in a cache_write
\* issued while the cache is disabled.
C13_WriteBackOnly ==
    [][/\ (Step("cache_write") /\ enabled) => memory' = memory
       /\ memory' # memory
          => \/ Step("sync_with_memory")
             \/ FlushStep
             \/ (Step("cache_write") /\ ~enabled)]_vars

\* After a write of 10 to address 0 was synchronized, an enabled write of 20 to
\* address 0 has left Memory holding 10.
C13_Witness ==
    /\ enabled
    /\ prev.op = "sync_with_memory" /\ prev.exc = "none"
    /\ last.op = "cache_write" /\ last.address = PyInt(0) /\ last.data = PyInt(20)
    /\ PyInt(0) \in DOMAIN memory /\ memory[PyInt(0)] = PyInt(10)
    /\ PyInt(0) \in dirty_entries

\* C14: a cache_read that hits leaves the sequence of resident entries (their
\* addresses, values and positions), the dirty set and Memory unchanged; only
\* the counters change.
C14_HitFrame ==
    [][(Step("cache_read") /\ last'.hit)
       => /\ UNCHANGED <<cache, maxlen, dirty_entries, memory, enabled>>
          /\ Counters' # Counters]_vars

\* A read has hit the oldest of two resident entries, which is still the oldest.
C14_Witness ==
    /\ last.op = "cache_read" /\ last.hit
    /\ Len(cache) = 2 /\ cache[1].address = last.address
    /\ cache[1].data = last.ret
    /\ dirty_entries # {}

\* C15: if a is resident while the cache is disabled, then after a write of a
\* different value to a issued while disabled and a re-enable, with no flush (and
\* no write to a through the enabled cache) since, cache_read(a) is counted as a
\* hit and returns the value that was resident, not the value written.
C15_StaleHit ==
    [][(Step("cache_read") /\ enabled /\ last'.address \in DOMAIN stale)
       => /\ last'.exc = "none" /\ last'.hit /\ ~last'.miss
          /\ last'.ret = stale[last'.address].old
          /\ last'.ret # stale[last'.address].new]_vars

\* The entry of address 0 was installed by a read of Memory (20); 10 was written
\* to address 0 while disabled; after the re-enable the read returned 20 while
\* Memory holds 10.
C15_Witness ==
    /\ enabled
    /\ last.op = "cache_read" /\ last.hit /\ last.ret = PyInt(20)
    /\ prev.op = "cache_control" /\ prev.code = 1
    /\ CycleAddr \in DOMAIN stale /\ stale[CycleAddr] = [old |-> PyInt(20), new |-> PyInt(10)]
    /\ Stored(memory, CycleAddr) = PyInt(10)
    /\ nops = 6

\* C16: the counters never decrease and change only in a cache_read issued while
\* the cache is enabled, which adds 1 to total_accesses and either 1 hit and 1
\* latency unit or 1 miss and 10 latency units; so total_accesses = hits + misses
\* and total_access_time = hits + 10 * misses in every reachable state.
C16_Counters ==
    /\ [](/\ total_accesses = hits + misses
          /\ total_access_time = hits * HIT_TIME + misses * MISS_TIME)
    /\ [][/\ hits' >= hits /\ misses' >= misses
          /\ total_access_time' >= total_access_time
          /\ total_accesses' >= total_accesses
          /\ Counters' # Counters => (Step("cache_read") /\ enabled)
          /\ (Step("cache_read") /\ enabled)
             => /\ total_accesses' = total_accesses + 1
                /\ \/ /\ hits' = hits + 1 /\ misses' = misses
                      /\ total_access_time' = total_access_time + HIT_TIME
                   \/ /\ misses' = misses + 1 /\ hits' = hits
                      /\ total_access_time' = total_access_time + MISS_TIME]_vars

\* A miss, a hit and a miss whose read of Memory failed have been counted, and a
\* flush after them has left the counters as they were.
C16_Witness ==
    /\ last.op = "flush" /\ last.exc = "none"
    /\ prev.op = "cache_read" /\ prev.exc = "MemoryError" /\ prev.miss
    /\ hits = 1 /\ misses = 2
    /\ total_accesses = 3 /\ total_access_time = 21

\* C17: every address in the dirty set has a resident entry, whatever reads,
\* writes, enable/disable, sync and flush operations have occurred.
C17_DirtyResident == dirty_entries \subseteq Addresses(cache)

\* More entries than the capacity are resident and the oldest one is dirty,
\* after a flush that failed.
C17_Witness ==
    /\ Len(cache) > CacheSize
    /\ cache[1].address \in dirty_entries
    /\ last.op = "flush" /\ last.exc # "none"

\* C18: while the cache stays enabled, a cache_read(a) issued after
\* cache_write(a, v), a in bounds and v in range, with no later write to a,
\* returns v, whatever reads and writes of other addresses, synchronizations and
\* flushes occurred in between.
C18_ReadAfterWrite ==
    [][(/\ Step("cache_read") /\ enabled
        /\ last'.address \in DOMAIN held
        /\ InBounds(last'.address) /\ InRange32(held[last'.address]))
       => last'.exc = "none" /\ last'.ret = held[last'.address]]_vars

\* 10 was written to address 0 and a value to address -1; after a flush the read
\* of address 0 missed and returned 10.
C18_Witness ==
    /\ enabled
    /\ last.op = "cache_read" /\ last.address = PyInt(0) /\ last.miss
    /\ last.ret = PyInt(10)
    /\ prev.op = "flush" /\ prev.exc = "none"
    /\ PyInt(0) \in DOMAIN held /\ held[PyInt(0)] = PyInt(10)
    /\ PyInt(-1) \in DOMAIN held

\* Memory.write rejects the pair (address, data).
Rejected(address, data) == write_word(EmptyDict, address, data).exc # "none"

\* C19: with the cache enabled, cache_write accepts any address and value (it
\* installs the entry and marks it dirty without a failure); a sync_with_memory
\* or flush fails exactly when Memory.write rejects some dirty entry, and the
\* failure, which is Memory's, leaves the dirty set and the resident entries as
\* they were before the call.
C19_FailedSync ==
    [][/\ (Step("cache_write") /\ enabled)
          => /\ last'.exc = "none"
             /\ Resident(cache', last'.address)
             /\ EntryData(cache', last'.address) = last'.data
             /\ last'.address \in dirty_entries'
       /\ (Step("sync_with_memory") \/ FlushStep)
          => /\ last'.exc # "none"
                <=> \E i \in 1..Len(cache) : /\ cache[i].address \in dirty_entries
                                             /\ Rejected(cache[i].address, cache[i].data)
             /\ last'.exc # "none"
                => /\ last'.exc \in {"MemoryError", "OverflowError"}
                   /\ UNCHANGED <<cache, maxlen, dirty_entries>>]_vars

\* A flush has failed on its second dirty entry, whose value Memory rejects,
\* after writing the first one back: both entries are still resident and dirty.
C19_Witness ==
    /\ last.op = "cache_control" /\ last.code = 2 /\ last.exc = "OverflowError"
    /\ Len(cache) = 2 /\ dirty_entries = Addresses(cache)
    /\ cache[2].data = X80000000
    /\ PyInt(0) \in DOMAIN memory /\ memory[PyInt(0)] = PyInt(10)

\* The run of main() is over: the loop was left, or an instruction failed.
Terminated == phase \in {"completed", "failed"}

\* C20: every run of the loop of main() terminates; the k-th instruction it
\* executes is line k of the file, whatever value BNE, J and JAL gave the program
\* counter; nothing is executed after HALT, after the last line or after a
\* failure; so at most len(instructions) instructions are executed.
C20_LoopTerminates ==
    /\ [](nops <= ninstr /\ instruction_count <= ninstr)
    /\ [][nops' = nops + 1
          => /\ instruction_count = nops /\ instruction_count < ninstr
             /\ last.op # "HALT" /\ last.exc = "none"
             /\ IF last'.exc = "none"
                THEN instruction_count' = instruction_count + 1 /\ phase' = "loop"
                ELSE instruction_count' = instruction_count /\ phase' = "failed"]_vars
    /\ [][Terminated => UNCHANGED vars]_vars
    /\ <>Terminated

\* A run has completed on HALT, its fourth line, before the end of the file,
\* right after a jump to line 0 that left the program counter at 0.
C20_Witness ==
    /\ phase = "completed" /\ ~running
    /\ last.op = "HALT" /\ prev.op = "J" /\ prev.code = 0
    /\ pc = 0 /\ registers[3] # PyInt(0)
    /\ instruction_count = nops /\ nops = 4 /\ instruction_count < ninstr

====
